---- MODULE Spec2Model ----
(***************************************************************************)
(* Report-building engine of collections-pnz: the two report builders      *)
(* (balance_sum_report.build_balance_report and                            *)
(* generate_billing_report.build_report), the fiscal-year classifier, the  *)
(* customer-name inference and the two interactive flows of                *)
(* generate_reports.py that validate the columns and call the builders.    *)
(*                                                                         *)
(* Conventions                                                             *)
(*  - A DataFrame is [cols |-> set of column names,                        *)
(*    rows |-> sequence of rows], a row being a function from cols to      *)
(*    cells.                                                               *)
(*  - Amounts (Balance, Inv Value) are carried in halves, so the cell 3    *)
(*    is the amount 1.5; a missing amount (NaN) is <<>> and a present one  *)
(*    is <<h>>.                                                            *)
(*  - An Inv Date cell of the loaded table is text ([kind |-> "str"]) or   *)
(*    missing ([kind |-> "nan"]); pd.to_datetime turns it into a           *)
(*    Timestamp ([kind |-> "ts"]) or NaT ([kind |-> "nat"]).               *)
(*  - Column names are strings; the texts the code computes with (labels,  *)
(*    names, formatted dates) are sequences of characters.                 *)
(*  - Init is the state after load_table; df is the caller's DataFrame     *)
(*    object, which both flows hand to their builder.                      *)
(***************************************************************************)
EXTENDS Integers, Sequences, FiniteSets, TLC

VARIABLES df, balance_out, billing_out

vars == <<df, balance_out, billing_out>>

----------------------------------------------------------------------------
(* Bounds of the input family *)

MaxRows == 2

----------------------------------------------------------------------------
(* Generic helpers *)

None == <<>>

Some(v) == <<v>>

Range(s) == {s[i] : i \in DOMAIN s}

RECURSIVE SumSeq(_)
SumSeq(s) == IF s = <<>> THEN 0 ELSE Head(s) + SumSeq(Tail(s))

(* Python int(float): truncation toward zero; h is an amount in halves *)
int(h) == IF h >= 0 THEN h \div 2 ELSE -((-h) \div 2)

----------------------------------------------------------------------------
(* Text *)

DigitChar == <<"0", "1", "2", "3", "4", "5", "6", "7", "8", "9">>

IsDigit(c) == \E i \in 1..10 : DigitChar[i] = c

DigitVal(c) == (CHOOSE i \in 1..10 : DigitChar[i] = c) - 1

(* str(n) for n >= 0 *)
RECURSIVE Str(_)
Str(n) == IF n < 10 THEN <<DigitChar[n + 1]>>
          ELSE Str(n \div 10) \o <<DigitChar[(n % 10) + 1]>>

(* format(n, "02d") for n >= 0 *)
Pad2(n) == IF n < 10 THEN <<"0">> \o Str(n) ELSE Str(n)

(* int(text) for a text of digits *)
RECURSIVE ToInt(_)
ToInt(t) == IF t = <<>> THEN 0
            ELSE 10 * ToInt(SubSeq(t, 1, Len(t) - 1)) + DigitVal(t[Len(t)])

IsSpace(c) == c = " "

(* str.strip() *)
RECURSIVE LStrip(_)
LStrip(t) == IF t # <<>> /\ IsSpace(Head(t)) THEN LStrip(Tail(t)) ELSE t

RECURSIVE RStrip(_)
RStrip(t) == IF t # <<>> /\ IsSpace(t[Len(t)])
             THEN RStrip(SubSeq(t, 1, Len(t) - 1)) ELSE t

strip(t) == RStrip(LStrip(t))

(* Code points of the characters that occur in the column names *)
Ord(c) ==
  CASE c = " " -> 32
    [] c = "B" -> 66 [] c = "C" -> 67 [] c = "D" -> 68 [] c = "F" -> 70
    [] c = "I" -> 73 [] c = "N" -> 78 [] c = "O" -> 79 [] c = "V" -> 86
    [] c = "Y" -> 89
    [] c = "a" -> 97 [] c = "c" -> 99 [] c = "d" -> 100 [] c = "e" -> 101
    [] c = "l" -> 108 [] c = "n" -> 110 [] c = "o" -> 111 [] c = "r" -> 114
    [] c = "t" -> 116 [] c = "u" -> 117 [] c = "v" -> 118
    [] c = "-" -> 45
    [] IsDigit(c) -> 48 + DigitVal(c)

(* Python's str < str: lexicographic on code points *)
RECURSIVE TextLess(_, _)
TextLess(a, b) ==
  IF b = <<>> THEN FALSE
  ELSE IF a = <<>> THEN TRUE
  ELSE IF Ord(Head(a)) # Ord(Head(b)) THEN Ord(Head(a)) < Ord(Head(b))
  ELSE TextLess(Tail(a), Tail(b))

(* the least text of a non-empty set of texts *)
least(S) == CHOOSE x \in S : \A y \in S \ {x} : TextLess(x, y)

(* the texts of S in ascending order *)
RECURSIVE ascending(_)
ascending(S) ==
  IF S = {} THEN <<>> ELSE <<least(S)>> \o ascending(S \ {least(S)})

(* sep.join(parts), as the sequence of its pieces *)
RECURSIVE join(_, _)
join(sep, parts) ==
  IF parts = <<>> THEN <<>>
  ELSE IF Len(parts) = 1 THEN <<Head(parts)>>
  ELSE <<Head(parts), sep>> \o join(sep, Tail(parts))

----------------------------------------------------------------------------
(* Column names *)

InvDate == "Inv Date"

InvValue == "Inv Value"

Balance == "Balance"

OrderNo == "Order No"

InvNo == "Inv No"

FY == "FY"

CY == "CY"

BillingName == "Billing Name"

CustomerName == "Customer Name"

Customer == "Customer"

(* the characters of a column name *)
chars(name) ==
  CASE name = "Inv Date" -> <<"I", "n", "v", " ", "D", "a", "t", "e">>
    [] name = "Inv Value" -> <<"I", "n", "v", " ", "V", "a", "l", "u", "e">>
    [] name = "Balance" -> <<"B", "a", "l", "a", "n", "c", "e">>
    [] name = "Order No" -> <<"O", "r", "d", "e", "r", " ", "N", "o">>
    [] name = "Inv No" -> <<"I", "n", "v", " ", "N", "o">>

(* variant of sorted: the column names in descending order *)
RECURSIVE sorted_descending(_)
sorted_descending(S) ==
  IF S = {} THEN <<>>
  ELSE LET m == CHOOSE x \in S : \A y \in S \ {x} : TextLess(chars(y), chars(x))
       IN  <<m>> \o sorted_descending(S \ {m})

(* sorted(S) for a set of column names *)
RECURSIVE sorted(_)
sorted(S) ==
  IF S = {} THEN <<>>
  ELSE LET m == CHOOSE x \in S : \A y \in S \ {x} : TextLess(chars(x), chars(y))
       IN  <<m>> \o sorted(S \ {m})

----------------------------------------------------------------------------
(* Dates *)

NaT == [kind |-> "nat", year |-> 0, month |-> 0, day |-> 0]

Timestamp(y, m, d) == [kind |-> "ts", year |-> y, month |-> m, day |-> d]

(* a text cell "y-m-d" of the loaded table *)
DateText(y, m, d) == [kind |-> "str", year |-> y, month |-> m, day |-> d]

(* an empty cell of the loaded table *)
NaNDate == [kind |-> "nan", year |-> 0, month |-> 0, day |-> 0]

IsLeap(y) == (y % 4 = 0 /\ y % 100 # 0) \/ y % 400 = 0

DaysIn(y, m) ==
  IF m \in {4, 6, 9, 11} THEN 30
  ELSE IF m = 2 THEN (IF IsLeap(y) THEN 29 ELSE 28)
  ELSE 31

(* pd.to_datetime(cell, errors="coerce") *)
to_datetime(c) ==
  IF c.kind = "ts" \/ c.kind = "nat" THEN c
  ELSE IF c.kind = "str" /\ c.month \in 1..12 /\ c.day >= 1
          /\ c.day <= DaysIn(c.year, c.month)
       THEN Timestamp(c.year, c.month, c.day)
  ELSE NaT

(* pd.isna / pd.notna of a date *)
isna(t) == t.kind # "ts"

notna(t) == ~isna(t)

DateLess(a, b) ==
  \/ a.year < b.year
  \/ a.year = b.year /\ a.month < b.month
  \/ a.year = b.year /\ a.month = b.month /\ a.day < b.day

(* Series.min() / Series.max() of a datetime column: NaT is skipped *)
date_min(s) ==
  LET present == {t \in Range(s) : notna(t)}
  IN  IF present = {} THEN NaT
      ELSE CHOOSE t \in present : \A u \in present : ~DateLess(u, t)

date_max(s) ==
  LET present == {t \in Range(s) : notna(t)}
  IN  IF present = {} THEN NaT
      ELSE CHOOSE t \in present : \A u \in present : ~DateLess(t, u)

MonthAbbr == <<"Jan", "Feb", "Mar", "Apr", "May", "Jun",
               "Jul", "Aug", "Sep", "Oct", "Nov", "Dec">>

(* format(t, "%d-%b-%Y") *)
strftime(t) == Pad2(t.day) \o <<"-", MonthAbbr[t.month], "-">> \o Str(t.year)

(* variant of fy_label: the fiscal year taken to start in March *)
fy_label_from_march(date) ==
  IF isna(date) THEN None
  ELSE LET start == IF date.month >= 3 THEN date.year ELSE date.year - 1
       IN  Some(<<"F", "Y">> \o Str(start) \o <<"-">> \o Pad2((start + 1) % 100))

(* generate_billing_report.fy_label *)
fy_label(date) ==
  IF isna(date) THEN None
  ELSE LET start == IF date.month >= 4 THEN date.year ELSE date.year - 1
       IN  Some(<<"F", "Y">> \o Str(start) \o <<"-">> \o Pad2((start + 1) % 100))

----------------------------------------------------------------------------
(* DataFrame and Series operations *)

Rows(d) == DOMAIN d.rows

(* df[col] as a sequence of cells *)
column(d, col) == [i \in Rows(d) |-> d.rows[i][col]]

(* df[col] = values *)
set_column(d, col, values) ==
  [cols |-> d.cols \cup {col},
   rows |-> [i \in Rows(d) |->
               [c \in d.cols \cup {col} |->
                  IF c = col THEN values[i] ELSE d.rows[i][c]]]]

(* df[mask]: the rows that satisfy keep, in their order *)
filter_rows(d, keep(_)) == [cols |-> d.cols, rows |-> SelectSeq(d.rows, keep)]

(* variant of copy: the caller's object itself, as "df = df" would give *)
copy_by_reference(d) == [shared |-> TRUE, frame |-> d]

(* DataFrame.copy(): a new object that shares nothing with the caller's *)
copy(d) == [shared |-> FALSE, frame |-> d]

(* Series.sum() of an amount column: NaN is skipped, the empty sum is 0 *)
RECURSIVE amount_sum(_)
amount_sum(s) ==
  IF s = <<>> THEN 0
  ELSE (IF Head(s) = None THEN 0 ELSE Head(s)[1]) + amount_sum(Tail(s))

(* Series.nunique(): distinct non-missing values *)
nunique(s) == Cardinality({c \in Range(s) : c # None})

(* variants of is_payable: no filter at all, and a filter that lets 0 pass *)
is_payable_unfiltered(b) == b # None

is_payable_or_zero(b) == b # None /\ b[1] >= 0

(* the mask df["Balance"] > 0 on one cell: NaN > 0 is False *)
is_payable(b) == b # None /\ b[1] > 0

(* Series.unique(): the distinct values in order of first appearance *)
RECURSIVE unique(_)
unique(s) ==
  IF s = <<>> THEN <<>>
  ELSE LET u == unique(SubSeq(s, 1, Len(s) - 1))
           x == s[Len(s)]
       IN  IF x \in Range(u) THEN u ELSE Append(u, x)

----------------------------------------------------------------------------
(* Customer-name inference *)

candidate_columns == <<BillingName, CustomerName, Customer>>

(* a name cell: text, a number or missing *)
NameText(t) == [kind |-> "str", text |-> t]

NameNumber(n) == [kind |-> "num", text |-> Str(n)]

NameNaN == [kind |-> "nan", text |-> <<>>]

(* pd.api.types.is_string_dtype of a column without missing cells *)
is_string_dtype(s) == \A i \in DOMAIN s : s[i].kind = "str"

(* one round of the loop of infer_customer_name: the name column col gives,
   or None when the loop goes on to the next candidate *)
infer_from(d, col) ==
  IF col \notin d.cols THEN None
  ELSE LET NotMissing(c) == c.kind # "nan"
           series == SelectSeq(column(d, col), NotMissing)
       IN  IF series = <<>> THEN None
           ELSE IF ~is_string_dtype(series) THEN None
           ELSE LET values == [i \in DOMAIN series |-> strip(series[i].text)]
                    NonEmpty(t) == t # <<>>
                    uniques == unique(SelectSeq(values, NonEmpty))
                IN  IF Len(uniques) = 1 THEN Some(uniques[1]) ELSE None

(* variant of infer_loop: the first candidate column the table has decides *)
RECURSIVE infer_loop_first_present(_, _)
infer_loop_first_present(d, cands) ==
  IF cands = <<>> THEN None
  ELSE IF Head(cands) \in d.cols THEN infer_from(d, Head(cands))
  ELSE infer_loop_first_present(d, Tail(cands))

RECURSIVE infer_loop(_, _)
infer_loop(d, cands) ==
  IF cands = <<>> THEN None
  ELSE LET r == infer_from(d, Head(cands))
       IN  IF r # None THEN r ELSE infer_loop(d, Tail(cands))

(* balance_sum_report.infer_customer_name and
   generate_billing_report.infer_customer_name (the same text) *)
infer_customer_name(d) == infer_loop(d, candidate_columns)

----------------------------------------------------------------------------
(* Balance report *)

(* df.get("Inv Date") parsed: a column of missing values when the table has
   no such column *)
parsed_dates(d) ==
  [i \in Rows(d) |->
     IF InvDate \in d.cols THEN to_datetime(d.rows[i][InvDate]) ELSE NaNDate]

(* the rows the balance report counts *)
payable_rows(work) ==
  LET Keep(r) == is_payable(r[Balance]) IN filter_rows(work, Keep)

(* variant of range_rows: the range taken over every row of the table *)
range_rows_of_all(work) == work

(* the rows the date range of the balance report is taken over *)
range_rows(work) == payable_rows(work)

(* balance_sum_report.build_balance_report: the report, and the caller's
   DataFrame object as the call leaves it *)
build_balance_report(d, customer, as_of) ==
  LET local == copy(d)
      work == set_column(local.frame, InvDate, parsed_dates(local.frame))
      payable == payable_rows(work)
      balance_total == amount_sum(column(payable, Balance))
      order_count == IF OrderNo \in payable.cols
                     THEN nunique(column(payable, OrderNo))
                     ELSE Len(payable.rows)
      min_date == date_min(column(range_rows(work), InvDate))
      max_date == date_max(column(range_rows(work), InvDate))
      na == <<"N", "/", "A">>
  IN  [report |->
         [customer |-> customer,
          as_of |-> strftime(as_of),
          total |-> int(balance_total),
          orders |-> order_count,
          range |-> IF notna(min_date) \/ notna(max_date)
                    THEN [line |-> "From",
                          min_str |-> IF notna(min_date) THEN strftime(min_date) ELSE na,
                          max_str |-> IF notna(max_date) THEN strftime(max_date) ELSE na]
                    ELSE [line |-> "No unpaid invoices found.",
                          min_str |-> <<>>, max_str |-> <<>>]],
       df |-> IF local.shared THEN work ELSE d]

----------------------------------------------------------------------------
(* Billing report *)

(* fy_breakdown["FY"].str.extract(r"FY(\d{4})")[0]: the four digits that
   follow "FY", or None when the label has no such part *)
extract_start_year(label) ==
  IF Len(label) >= 6 /\ label[1] = "F" /\ label[2] = "Y"
     /\ \A i \in 3..6 : IsDigit(label[i])
  THEN Some(ToInt(SubSeq(label, 3, 6)))
  ELSE None

(* variant of group_size: the distinct invoice numbers of the group, as
   ("Inv No", "nunique") would give *)
group_nunique(work, label) ==
  LET InGroup(r) == r[FY] = Some(label)
  IN  nunique(column(filter_rows(work, InGroup), InvNo))

(* the aggregation ("Inv No", "size"): the number of rows of the group *)
group_size(work, label) ==
  Cardinality({i \in Rows(work) : work.rows[i][FY] = Some(label)})

(* df.dropna(subset=["FY"]).groupby("FY").agg(...).reset_index(): one group
   per label, the groups in the sorted order of their labels *)
groupby_fy(work) ==
  LET labelled == {i \in Rows(work) : work.rows[i][FY] # None}
      labels == {work.rows[i][FY][1] : i \in labelled}
      keys == ascending(labels)
  IN  [k \in DOMAIN keys |->
         LET InGroup(r) == r[FY] = Some(keys[k])
         IN  [FY |-> keys[k],
              total_value |-> amount_sum(column(filter_rows(work, InGroup), InvValue)),
              invoice_count |-> group_size(work, keys[k])]]

(* variant of sort_values: descending by the start year *)
RECURSIVE sort_values_descending(_)
sort_values_descending(groups) ==
  IF groups = <<>> THEN <<>>
  ELSE LET key(i) == extract_start_year(groups[i].FY)[1]
           m == CHOOSE i \in DOMAIN groups :
                  \A j \in DOMAIN groups :
                    key(i) > key(j) \/ (key(i) = key(j) /\ i <= j)
           rest == [j \in 1..(Len(groups) - 1) |->
                      IF j < m THEN groups[j] ELSE groups[j + 1]]
       IN  <<groups[m]>> \o sort_values_descending(rest)

(* DataFrame.sort_values("start_year"): ascending by the start year *)
RECURSIVE sort_values(_)
sort_values(groups) ==
  IF groups = <<>> THEN <<>>
  ELSE LET key(i) == extract_start_year(groups[i].FY)[1]
           m == CHOOSE i \in DOMAIN groups :
                  \A j \in DOMAIN groups :
                    key(i) < key(j) \/ (key(i) = key(j) /\ i <= j)
           rest == [j \in 1..(Len(groups) - 1) |->
                      IF j < m THEN groups[j] ELSE groups[j + 1]]
       IN  <<groups[m]>> \o sort_values(rest)

(* the rows the "Not dated" line counts *)
undated_rows(work) ==
  LET NoLabel(r) == r[FY] = None IN filter_rows(work, NoLabel)

(* variant of outstanding_sum: the sum of the positive balances only *)
outstanding_sum_of_payable(work) ==
  amount_sum(column(payable_rows(work), Balance))

(* the sum behind "4) Current outstanding balance" *)
outstanding_sum(work) == amount_sum(column(work, Balance))

(* generate_billing_report.build_report: the report, and the caller's
   DataFrame object as the call leaves it *)
build_report(d, customer, as_of) ==
  LET local == copy(d)
      w1 == set_column(local.frame, InvDate,
                       [i \in Rows(local.frame) |->
                          to_datetime(local.frame.rows[i][InvDate])])
      w2 == set_column(w1, FY, [i \in Rows(w1) |-> fy_label(w1.rows[i][InvDate])])
      work == set_column(w2, CY,
                         [i \in Rows(w2) |->
                            IF isna(w2.rows[i][InvDate]) THEN None
                            ELSE Some(w2.rows[i][InvDate].year)])
      first_invoice == date_min(column(work, InvDate))
      lifetime_billing == int(amount_sum(column(work, InvValue)))
      outstanding_balance == int(outstanding_sum(work))
      order_count == nunique(column(work, OrderNo))
      fy_breakdown == sort_values(groupby_fy(work))
      current_year == as_of.year
      InYear(r) == r[CY] = Some(current_year)
      cy_current == filter_rows(work, InYear)
      cy_value == IF cy_current.rows # <<>>
                  THEN int(amount_sum(column(cy_current, InvValue))) ELSE 0
      cy_count == IF cy_current.rows # <<>> THEN Len(cy_current.rows) ELSE 0
      undated == undated_rows(work)
      undated_value == int(amount_sum(column(undated, InvValue)))
      undated_count == Len(undated.rows)
  IN  [report |->
         [customer |-> customer,
          as_of |-> strftime(as_of),
          total_invoiced |-> lifetime_billing,
          first_invoice |-> IF notna(first_invoice)
                            THEN Some(strftime(first_invoice)) ELSE None,
          fy_lines |-> [k \in DOMAIN fy_breakdown |->
                          [FY |-> fy_breakdown[k].FY,
                           value |-> int(fy_breakdown[k].total_value),
                           count |-> fy_breakdown[k].invoice_count]],
          not_dated |-> IF undated_count # 0
                        THEN Some([value |-> undated_value, count |-> undated_count])
                        ELSE None,
          cy |-> [year |-> current_year, value |-> cy_value, count |-> cy_count],
          outstanding |-> outstanding_balance,
          orders |-> order_count],
       df |-> IF local.shared THEN work ELSE d]

----------------------------------------------------------------------------
(* The flows of generate_reports.py *)

required_columns == {InvDate, InvValue, Balance, OrderNo, InvNo}

(* the columns the billing flow finds missing *)
missing_columns(d) == required_columns \ d.cols

DefaultCustomer == "Customer"

(* generate_reports.prompt_customer *)
prompt_customer(inferred, entered) ==
  LET default_label == IF inferred # None THEN inferred[1] ELSE DefaultCustomer
  IN  IF entered # <<>> THEN entered ELSE default_label

NoOutput ==
  [status |-> "none", message |-> <<>>, inferred |-> None, report |-> None,
   file |-> None]

(* the flow ended in ValueError(message); nothing was built or written *)
Raised(message) ==
  [status |-> "error", message |-> message, inferred |-> None,
   report |-> None, file |-> None]

(* the flow built the report and wrote it to its output file *)
Wrote(inferred, report) ==
  [status |-> "ok", message |-> <<>>, inferred |-> inferred,
   report |-> Some(report), file |-> Some(report)]

----------------------------------------------------------------------------
(* The bounded family of loaded tables *)

BalanceCells == {None, Some(-2), Some(-1), Some(0), Some(1), Some(2)}

(* empty, not a date (30 February), and dates on both sides of 1 April *)
DateCells ==
  {NaNDate, DateText(2025, 2, 30), DateText(2025, 3, 31), DateText(2025, 4, 1),
   DateText(2009, 12, 15), DateText(2000, 1, 1)}

NameCells ==
  {NameNaN, NameText(<<" ">>), NameText(<<"A">>), NameText(<<" ", "A", " ">>),
   NameText(<<"B">>)}

(* one row over the columns cols; n gives the cells of the name columns *)
Row(cols, b, v, t, o, n) ==
  [c \in cols |->
     CASE c = Balance -> b
       [] c = InvValue -> v
       [] c = InvDate -> t
       [] c = OrderNo -> o
       [] c = InvNo -> Some("I1")
       [] OTHER -> n[c]]

RowsOver(cols, B, V, T, O) ==
  {Row(cols, b, v, t, o, <<>>) : b \in B, v \in V, t \in T, o \in O}

(* the rows over the required columns and the name columns names, the cells
   of the name column c drawn from cells[c] *)
NamedRows(names, cells) ==
  {Row(required_columns \cup names, Some(1), Some(3), DateText(2025, 3, 31),
       Some("A1"), n) :
     n \in {f \in [names -> UNION {cells[c] : c \in names}] :
              \A c \in names : f[c] \in cells[c]}}

(* the tables of at most MaxRows rows drawn from rowset *)
Tables(cols, rowset) ==
  UNION {{[cols |-> cols, rows |-> rs] : rs \in [1..n -> rowset]} : n \in 0..MaxRows}

(* balances of every sign, with and without a date *)
LedgerTables ==
  Tables(required_columns,
         RowsOver(required_columns, BalanceCells, {Some(3)},
                  {DateText(2025, 2, 30), DateText(2025, 3, 31)}, {Some("A1")}))

(* paid and unpaid rows with all kinds of dates *)
UnpaidTables ==
  Tables(required_columns,
         RowsOver(required_columns, {Some(-1), Some(0), Some(1)}, {Some(3)},
                  {NaNDate, DateText(2025, 2, 30), DateText(2025, 3, 31),
                   DateText(2009, 12, 15)},
                  {Some("A1")}))

(* paid and unpaid rows of one order or two, or of none *)
OrderTables ==
  Tables(required_columns,
         RowsOver(required_columns, {Some(0), Some(1)}, {Some(3)},
                  {DateText(2025, 3, 31)}, {None, Some("A1"), Some("A2")}))

(* every kind of date *)
CalendarTables ==
  Tables(required_columns,
         RowsOver(required_columns, {Some(1)}, {Some(3)}, DateCells, {Some("A1")}))

(* invoice values, present and missing *)
ValueTables ==
  Tables(required_columns,
         RowsOver(required_columns, {Some(1)}, {None, Some(2), Some(3)},
                  {DateText(2025, 2, 30), DateText(2009, 12, 15)}, {Some("A1")}))

(* tables with only some of the required columns *)
PartialTables ==
  UNION {Tables(cols, RowsOver(cols, {Some(-1), Some(1)}, {Some(3)},
                               {DateText(2025, 3, 31)}, {Some("A1")})) :
           cols \in (SUBSET required_columns) \ {required_columns}}

Inputs ==
  LedgerTables \cup UnpaidTables \cup OrderTables \cup CalendarTables
    \cup ValueTables \cup PartialTables

TextCells == {NameText(<<" ">>), NameText(<<"A">>), NameText(<<"B">>)}

(* tables with name columns: one candidate with every kind of cell, two
   candidates, three candidates, and a first candidate that is numeric *)
NameInputs ==
  LET all == {BillingName, CustomerName, Customer}
  IN  Tables(required_columns \cup {BillingName},
             NamedRows({BillingName}, [c \in {BillingName} |-> NameCells]))
      \cup Tables(required_columns \cup {CustomerName, Customer},
                  NamedRows({CustomerName, Customer},
                            [c \in {CustomerName, Customer} |-> TextCells]))
      \cup Tables(required_columns \cup all,
                  NamedRows(all, [c \in all |->
                                    {NameText(<<" ">>), NameText(<<"A", " ">>)}]))
      \cup Tables(required_columns \cup {BillingName, Customer},
                  NamedRows({BillingName, Customer},
                            [c \in {BillingName, Customer} |->
                               IF c = BillingName
                               THEN {NameNaN, NameNumber(7)}
                               ELSE {NameText(<<"A">>), NameText(<<"B">>)}]))

(* what the user answers to the two prompts: the name (empty for the
   default) and the as-of date *)
Answers ==
  {[entered |-> <<>>, as_of |-> Timestamp(2025, 11, 28)],
   [entered |-> <<"Z">>, as_of |-> Timestamp(2009, 12, 31)]}

----------------------------------------------------------------------------
(* Specification *)

Init ==
  /\ df \in Inputs
  /\ balance_out = NoOutput
  /\ billing_out = NoOutput

(* generate_reports.run_billing_summary on the loaded table *)
run_billing_summary ==
  \E answer \in Answers :
    LET missing == missing_columns(df)
    IN  IF missing # {}
        THEN /\ billing_out' =
                  Raised(<<"Input missing required columns: ">>
                         \o join(", ", sorted(missing)))
             /\ UNCHANGED <<df, balance_out>>
        ELSE LET inferred == infer_customer_name(df)
                 customer == prompt_customer(inferred, answer.entered)
                 built == build_report(df, customer, answer.as_of)
             IN  /\ billing_out' = Wrote(inferred, built.report)
                 /\ df' = built.df
                 /\ UNCHANGED balance_out

(* generate_reports.run_balance_summary on the loaded table *)
run_balance_summary ==
  \E answer \in Answers :
    IF Balance \notin df.cols
    THEN /\ balance_out' = Raised(<<"Input missing required column: Balance">>)
         /\ UNCHANGED <<df, billing_out>>
    ELSE LET inferred == infer_customer_name(df)
             customer == prompt_customer(inferred, answer.entered)
             built == build_balance_report(df, customer, answer.as_of)
         IN  /\ balance_out' = Wrote(inferred, built.report)
             /\ df' = built.df
             /\ UNCHANGED billing_out

Next == run_billing_summary \/ run_balance_summary

Spec == Init /\ [][Next]_vars

InitNames ==
  /\ df \in NameInputs
  /\ balance_out = NoOutput
  /\ billing_out = NoOutput

SpecNames == InitNames /\ [][Next]_vars

----------------------------------------------------------------------------
(* What the claims are stated with *)

BalanceReport == balance_out.report[1]

BillingReport == billing_out.report[1]

(* n is the amount h (in halves) truncated toward zero *)
TruncatesTo(h, n) ==
  IF h >= 0 THEN 2 * n <= h /\ h < 2 * n + 2
  ELSE h <= 2 * n /\ 2 * n - 2 < h

HasBalance(r) == r[Balance] # None

StrictlyPositive(r) == HasBalance(r) /\ r[Balance][1] > 0

(* the sum of Balance over the rows of d that satisfy P *)
BalanceSumWhere(d, P(_)) ==
  SumSeq([i \in Rows(d) |-> IF P(d.rows[i]) THEN d.rows[i][Balance][1] ELSE 0])

(* the rows of d with Balance > 0 and a date that parses *)
DatedUnpaid(d) ==
  {i \in Rows(d) : /\ StrictlyPositive(d.rows[i])
                   /\ InvDate \in d.cols
                   /\ notna(to_datetime(d.rows[i][InvDate]))}

(* the rows of rs whose index is in K, in their order *)
RECURSIVE keep_rows(_, _)
keep_rows(rs, K) ==
  IF rs = <<>> THEN <<>>
  ELSE keep_rows(SubSeq(rs, 1, Len(rs) - 1), K)
         \o (IF Len(rs) \in K THEN <<rs[Len(rs)]>> ELSE <<>>)

(* the tables got from d by deleting some rows whose Balance is missing,
   zero or negative: they have the columns of d and its rows with Balance > 0.
   Any two tables with the same columns and the same rows with Balance > 0
   have the table without the other rows in common. *)
WithoutSomeUnpayable(d) ==
  {[cols |-> d.cols, rows |-> keep_rows(d.rows, K)] :
     K \in {K \in SUBSET Rows(d) :
              \A i \in Rows(d) : StrictlyPositive(d.rows[i]) => i \in K}}

----------------------------------------------------------------------------
(* C1: the total payable of the balance report is the sum of Balance over
   exactly the rows with Balance > 0, truncated toward zero; rows with a
   zero, negative or missing Balance add nothing *)
C1_TotalPayable ==
  balance_out.status = "ok" =>
    TruncatesTo(BalanceSumWhere(df, StrictlyPositive), BalanceReport.total)

C1_Witness ==
  /\ balance_out.status = "ok"
  /\ \E i, j \in Rows(df) :
       /\ df.rows[i][Balance] = Some(-2)
       /\ df.rows[j][Balance] = Some(1)
  /\ BalanceReport.total = 0

(* C6: the rows with a missing, zero or negative Balance have no influence
   on the balance report: a table and the same table without some of those
   rows give the same report (total, order count, date range) for the same
   customer and as-of date *)
C6_UnpayableRowsExcluded ==
  balance_out.status = "ok" =>
    \A d2 \in WithoutSomeUnpayable(df), a \in Answers :
      LET other == build_balance_report(d2, BalanceReport.customer, a.as_of).report
      IN  other.as_of = BalanceReport.as_of => other = BalanceReport

C6_Witness ==
  /\ balance_out.status = "ok"
  /\ \E i, j \in Rows(df) :
       /\ df.rows[i][Balance] = Some(0)
       /\ df.rows[j][Balance] = Some(1)
       /\ df.rows[i][OrderNo] = Some("A2")
       /\ df.rows[j][OrderNo] = Some("A1")
  /\ BalanceReport.orders = 1

(* C9: when some row with Balance > 0 has a date that parses, section 3 of
   the balance report is "From <min> to <max>", min and max the earliest and
   the latest such date (so min <= max); it is "No unpaid invoices found."
   exactly when no row with Balance > 0 has a date that parses *)
C9_UnpaidDateRange ==
  balance_out.status = "ok" =>
    LET dates == {to_datetime(df.rows[i][InvDate]) : i \in DatedUnpaid(df)}
        range == BalanceReport.range
    IN  /\ dates # {} =>
             /\ range.line = "From"
             /\ \E lo, hi \in dates :
                  /\ \A t \in dates : ~DateLess(t, lo) /\ ~DateLess(hi, t)
                  /\ ~DateLess(hi, lo)
                  /\ range.min_str = strftime(lo)
                  /\ range.max_str = strftime(hi)
        /\ dates = {} <=> range.line = "No unpaid invoices found."

C9_Witness ==
  /\ balance_out.status = "ok"
  /\ \E i, j \in Rows(df) :
       /\ df.rows[i][Balance] = Some(0)
       /\ df.rows[i][InvDate] = DateText(2009, 12, 15)
       /\ df.rows[j][Balance] = Some(1)
       /\ df.rows[j][InvDate] = DateText(2025, 3, 31)
  /\ BalanceReport.range.line = "From"
  /\ BalanceReport.range.min_str = <<"3", "1", "-", "Mar", "-", "2", "0", "2", "5">>

----------------------------------------------------------------------------
(* What the claims about the billing report are stated with *)

(* the rows of d whose invoice date parses, and the others *)
Dated(d) == {i \in Rows(d) : notna(to_datetime(d.rows[i][InvDate]))}

Undated(d) == Rows(d) \ Dated(d)

(* the start year of the fiscal year (April to March) of row i's date *)
StartYear(d, i) ==
  LET t == to_datetime(d.rows[i][InvDate])
  IN  IF t.month \in 4..12 THEN t.year ELSE t.year - 1

(* label reads FY<start>-<two digits of (start + 1) mod 100> *)
IsLabelOf(label, start) ==
  /\ Len(label) = 9
  /\ label[1] = "F" /\ label[2] = "Y" /\ label[7] = "-"
  /\ \A k \in {3, 4, 5, 6, 8, 9} : IsDigit(label[k])
  /\ ToInt(SubSeq(label, 3, 6)) = start
  /\ ToInt(SubSeq(label, 8, 9)) = (start + 1) % 100

FY2024 == <<"F", "Y", "2", "0", "2", "4", "-", "2", "5">>

FY2025 == <<"F", "Y", "2", "0", "2", "5", "-", "2", "6">>

FY2009 == <<"F", "Y", "2", "0", "0", "9", "-", "1", "0">>

FYLabels == {BillingReport.fy_lines[k].FY : k \in DOMAIN BillingReport.fy_lines}

(* the place of a required column in the alphabetical order *)
AlphabeticalRank(name) ==
  CASE name = "Balance" -> 1
    [] name = "Inv Date" -> 2
    [] name = "Inv No" -> 3
    [] name = "Inv Value" -> 4
    [] name = "Order No" -> 5

MissingPrefix == "Input missing required columns: "

----------------------------------------------------------------------------
(* C2: every date that parses gets the label FY<start>-<(start+1) mod 100 in
   two digits>, start being the year of the date from April on and the year
   before from January to March (2025-03-31 gives FY2024-25, 2025-04-01
   gives FY2025-26); a date that is missing or does not parse gets none *)
C2_FiscalYearLabel ==
  billing_out.status = "ok" =>
    /\ \A i \in Dated(df) : \E l \in FYLabels : IsLabelOf(l, StartYear(df, i))
    /\ \A l \in FYLabels : \E i \in Dated(df) : IsLabelOf(l, StartYear(df, i))
    /\ \A i \in Rows(df) :
         /\ df.rows[i][InvDate] = DateText(2025, 3, 31) => FY2024 \in FYLabels
         /\ df.rows[i][InvDate] = DateText(2025, 4, 1) => FY2025 \in FYLabels

C2_Witness ==
  /\ billing_out.status = "ok"
  /\ \E i, j \in Rows(df) :
       /\ df.rows[i][InvDate] = DateText(2025, 3, 31)
       /\ df.rows[j][InvDate] = DateText(2025, 4, 1)
  /\ FYLabels = {FY2024, FY2025}

(* C3: a table that lacks required columns makes the billing flow fail with
   a message that lists all the missing columns in alphabetical order
   ("Inv Value, Order No" when these two are missing), and nothing is built
   or written *)
C3_MissingColumns ==
  LET missing == required_columns \ df.cols
      message == billing_out.message
      n == Cardinality(missing)
  IN  /\ billing_out.status = "ok" => missing = {}
      /\ billing_out.status = "error" =>
           /\ missing # {}
           /\ billing_out.report = None /\ billing_out.file = None
           /\ Len(message) = 2 * n
           /\ message[1] = MissingPrefix
           /\ {message[2 * k] : k \in 1..n} = missing
           /\ \A k \in 1..(n - 1) :
                /\ message[2 * k + 1] = ", "
                /\ AlphabeticalRank(message[2 * k])
                     < AlphabeticalRank(message[2 * k + 2])
           /\ missing = {"Inv Value", "Order No"} =>
                message = <<MissingPrefix, "Inv Value", ", ", "Order No">>

C3_Witness ==
  /\ billing_out.status = "error"
  /\ df.cols = {"Inv Date", "Balance", "Inv No"}
  /\ df.rows # <<>>
  /\ billing_out.message = <<MissingPrefix, "Inv Value", ", ", "Order No">>

(* C4: the fiscal-year breakdown has exactly one line for each fiscal-year
   label that occurs among the dated rows, in strictly ascending order of
   the start year, whatever the order of the rows *)
C4_FiscalYearOrder ==
  billing_out.status = "ok" =>
    LET lines == BillingReport.fy_lines
        start(k) == ToInt(SubSeq(lines[k].FY, 3, 6))
    IN  /\ \A k, l \in DOMAIN lines : k < l => start(k) < start(l)
        /\ \A i \in Dated(df) :
             Cardinality({k \in DOMAIN lines :
                            IsLabelOf(lines[k].FY, StartYear(df, i))}) = 1
        /\ \A k \in DOMAIN lines :
             \E i \in Dated(df) : IsLabelOf(lines[k].FY, StartYear(df, i))

C4_Witness ==
  /\ billing_out.status = "ok"
  /\ Len(df.rows) = 2
  /\ df.rows[1][InvDate] = DateText(2025, 3, 31)
  /\ df.rows[2][InvDate] = DateText(2009, 12, 15)
  /\ Len(BillingReport.fy_lines) = 2
  /\ BillingReport.fy_lines[1].FY = FY2009
  /\ BillingReport.fy_lines[2].FY = FY2024

(* C10: every row is counted in exactly one place of section 2, the line of
   its fiscal year or the "Not dated" line, so the counts add up to the
   number of rows; the "Not dated" line is there exactly when some row has a
   date that is missing or does not parse *)
C10_EveryRowCounted ==
  billing_out.status = "ok" =>
    LET lines == BillingReport.fy_lines
        not_dated == BillingReport.not_dated
    IN  /\ SumSeq([k \in DOMAIN lines |-> lines[k].count])
             + (IF not_dated = None THEN 0 ELSE not_dated[1].count)
             = Len(df.rows)
        /\ \A k \in DOMAIN lines :
             lines[k].count =
               Cardinality({i \in Dated(df) : IsLabelOf(lines[k].FY, StartYear(df, i))})
        /\ not_dated # None <=> Undated(df) # {}
        /\ not_dated # None => not_dated[1].count = Cardinality(Undated(df))

C10_Witness ==
  /\ billing_out.status = "ok"
  /\ \E i, j \in Rows(df) :
       /\ df.rows[i][InvDate] = DateText(2025, 2, 30)
       /\ df.rows[j][InvDate] = DateText(2009, 12, 15)
  /\ BillingReport.not_dated # None
  /\ Len(BillingReport.fy_lines) = 1

----------------------------------------------------------------------------
(* What the remaining claims are stated with *)

Negative(r) == HasBalance(r) /\ r[Balance][1] < 0

(* every balance of the table is a whole amount (an even number of halves) *)
WholeBalances(d) ==
  \A i \in Rows(d) : HasBalance(d.rows[i]) => d.rows[i][Balance][1] % 2 = 0

BothReports == balance_out.status = "ok" /\ billing_out.status = "ok"

(* t without its leading and trailing spaces *)
Trimmed(t) ==
  CHOOSE u \in {SubSeq(t, a, b) : a \in 1..(Len(t) + 1), b \in 0..Len(t)} :
    /\ u = <<>> \/ (u[1] # " " /\ u[Len(u)] # " ")
    /\ \E a \in 1..(Len(t) + 1), b \in 0..Len(t) :
         /\ u = SubSeq(t, a, b)
         /\ \A k \in 1..(a - 1) : t[k] = " "
         /\ \A k \in (b + 1)..Len(t) : t[k] = " "

(* the distinct trimmed non-empty values of the name column col *)
NameValues(d, col) ==
  {Trimmed(d.rows[i][col].text) : i \in {j \in Rows(d) : d.rows[j][col].kind = "str"}}
    \ {<<>>}

(* col is a column of d, holds text only, and has exactly one value *)
Qualifies(d, col) ==
  /\ col \in d.cols
  /\ \A i \in Rows(d) : d.rows[i][col].kind # "num"
  /\ Cardinality(NameValues(d, col)) = 1

(* the name the claim says is inferred from d *)
ExpectedName(d) ==
  LET order == <<"Billing Name", "Customer Name", "Customer">>
      good == {k \in 1..3 : Qualifies(d, order[k])}
  IN  IF good = {} THEN None
      ELSE LET first == CHOOSE k \in good : \A l \in good : k <= l
           IN  Some(CHOOSE v \in NameValues(d, order[first]) : TRUE)

----------------------------------------------------------------------------
(* C7, as claimed: the outstanding balance of the billing report differs from
   the total payable of the balance report whenever a row has a negative
   Balance *)
C7_DiffersWheneverNegative ==
  BothReports /\ (\E i \in Rows(df) : Negative(df.rows[i])) =>
    BillingReport.outstanding # BalanceReport.total

(* C7, amended: the outstanding balance of the billing report is the sum of
   Balance over all rows (negative balances and rows with dates that do not
   parse included), truncated toward zero; it is never more than the total
   payable of the balance report, and it is less whenever a row has a
   negative Balance and all balances are whole amounts *)
C7_OutstandingBalance ==
  /\ billing_out.status = "ok" =>
       TruncatesTo(BalanceSumWhere(df, HasBalance), BillingReport.outstanding)
  /\ BothReports =>
       /\ BillingReport.outstanding <= BalanceReport.total
       /\ WholeBalances(df) /\ (\E i \in Rows(df) : Negative(df.rows[i])) =>
            BillingReport.outstanding < BalanceReport.total

C7_Witness ==
  /\ BothReports
  /\ Len(df.rows) = 2
  /\ df.rows[1][Balance] = Some(2)
  /\ df.rows[2][Balance] = Some(-2)
  /\ df.rows[2][InvDate] = DateText(2025, 2, 30)
  /\ BillingReport.outstanding = 0
  /\ BalanceReport.total = 1

(* C8: no flow changes the caller's table: after a builder has run, the table
   has the columns and the cells it had before, also when both builders run
   on it one after the other *)
C8_CallerTableUntouched == [][df' = df]_vars

C8_Witness ==
  /\ BothReports
  /\ BillingReport.fy_lines # <<>>
  /\ "FY" \notin df.cols /\ "CY" \notin df.cols
  /\ \E i \in Rows(df) : df.rows[i][InvDate] = DateText(2025, 3, 31)

(* C5: the inferred name is the one trimmed non-empty value of the first of
   Billing Name, Customer Name, Customer that is a column of the table,
   holds text and has exactly one such value; a candidate with no value or
   with several is passed over; there is no inferred name exactly when no
   candidate qualifies *)
C5_InferredName ==
  /\ balance_out.status = "ok" => balance_out.inferred = ExpectedName(df)
  /\ billing_out.status = "ok" => billing_out.inferred = ExpectedName(df)

C5_Witness ==
  /\ BothReports
  /\ "Customer Name" \in df.cols
  /\ Cardinality(NameValues(df, "Customer Name")) = 2
  /\ NameValues(df, "Customer") = {<<"A">>}
  /\ billing_out.inferred = Some(<<"A">>)
  /\ balance_out.inferred = Some(<<"A">>)

====
